---- MODULE Spec2Model ----
(***************************************************************************)
(* Supervisor-mode trap dispatch and interrupt masking of                  *)
(* os/src/interrupt.rs.                                                    *)
(*                                                                         *)
(* Two specifications share the variables below.                           *)
(*   Spec      one hart taking traps: the stub delivers a TrapFrame,       *)
(*             rust_trap dispatches on the cause, the stub returns.        *)
(*   MaskSpec  a kernel thread running properly nested critical sections   *)
(*             built from disable_and_store / restore, with interrupts     *)
(*             arriving whenever sstatus.SIE allows.                       *)
(***************************************************************************)
EXTENDS Integers, Sequences, FiniteSets, TLC

\* ---------------------------------------------------------------- bounds
\* usize is modelled UsizeBits wide; CSR words, registers and addresses are
\* values of 0 .. UsizeMod - 1.
UsizeBits == 3
\* Entry frames fill x[i] with (i + seed) % UsizeMod, seed in 0 .. MaxSeed.
MaxSeed == 1
\* The STDIN buffer holds at most MaxStdin characters before a further
\* external interrupt is delivered.
MaxStdin == 2
\* The largest value the syscall collaborator returns or stores in the frame.
MaxRet == 1
\* Nesting depth of critical sections.
MaxDepth == 2
\* A character that is neither a carriage return nor a line feed.
OtherChar == 97
\* scause codes of an entry frame range over 0 .. MaxCode.
MaxCode == 15
\* restore(flags) is called at most MaxCalls times in a row.
MaxCalls == 2
\* At most MaxIrq interrupts become pending during one enable_and_wfi().
MaxIrq == 2
\* At most MaxBytes bytes reach the UART receiver.
MaxBytes == 3
\* The receive FIFO holds at most FifoDepth bytes.
FifoDepth == 2

\* ------------------------------------------------------- program constants
SIE == 2
EBREAK_LEN == 2
ECALL_LEN == 4
CR == 13
LF == 10
NREGS == 32
A0 == 10
A1 == 11
A2 == 12
A7 == 17
SEXT == 512
PLIC_MTH == 203427840
PLIC_PRIORITY == 201326592
PLIC_ENABLES == 201334912
SERIAL_IRQ == 10
UART16550 == 268435456
UART_MCR == 4
UART_IER == 1
MCR_VALUE == 11
IER_VALUE == 1

UsizeMod == 2 ^ UsizeBits
Word == 0 .. (UsizeMod - 1)

VARIABLES
    pc,         \* where the hart is: "running", "rust_trap", "syscall",
                \* "returned", "halted", "disable_and_store"
    tf,         \* the TrapFrame the dispatcher works on
    tf0,        \* the frame as the stub delivered it
    calls,      \* collaborator invocations of the current dispatch, in order
    console,    \* lines printed by the current dispatch (println!, panic!)
    STDIN,      \* crate::fs::stdio::STDIN, the line-discipline buffer
    STDIN0,     \* STDIN at trap entry
    serial_ok,  \* <<>> or <<b>>: the value try_serial returned
    written,    \* the frame fields the syscall collaborator stored, with values
    ret,        \* <<>> or <<r>>: the value the syscall collaborator returned
    sstatus,    \* the sstatus CSR (low UsizeBits bits)
    csr,        \* the other CSRs init programs: sscratch, stvec, sie
    mmio,       \* the PLIC and UART registers init programs, by address
    hw0,        \* sstatus, csr and mmio when the dispatcher was entered
    spie,       \* sstatus.SPIE, the SIE bit saved by the hardware at trap entry
    tokens,     \* tokens of the open critical sections, outermost first
    das_prior,  \* sstatus just before the latest csrci of disable_and_store
    outer_sie,  \* bit 1 of sstatus just before the outermost disable_and_store
    last,       \* the masking primitive that completed last
    trap_at,    \* where interrupts were taken: "outside", "bracket", "das";
                \* in enable_and_wfi: "csrsi", "wfi", "parked"
    nested,     \* a trap was taken while the dispatcher was running
    init_pc,    \* the step of init_program that runs next, 0 outside init()
    hw_prior,   \* sstatus, csr and mmio before init() was called
    mmio_log,   \* the addresses init() stored to, in order
    pending,    \* an interrupt enabled in sie is pending
    arrived,    \* interrupts that have been pending in this call of enable_and_wfi
    serviced,   \* traps serviced since enable_and_wfi was called
    flags,      \* the argument of restore
    rhist,      \* sstatus before each call of restore(flags), in order
    fifo,       \* the receive FIFO of the UART
    rx          \* every byte that entered the receive FIFO, in arrival order

vars == <<pc, tf, tf0, calls, console, STDIN, STDIN0, serial_ok, written, ret,
          sstatus, csr, mmio, hw0, spie, tokens, das_prior, outer_sie, last,
          trap_at, nested, init_pc, hw_prior, mmio_log, pending, arrived, serviced,
          flags, rhist, fifo, rx>>

\* what belongs to one dispatch
frameVars == <<tf, tf0, calls, console, STDIN0, serial_ok, written, ret, hw0, spie>>
\* what init programs and nothing else in this module writes
hwVars == <<csr, mmio>>
\* what belongs to the critical sections of the interrupted thread
maskVars == <<tokens, das_prior, outer_sie, last, trap_at>>
\* what belongs to a run of init()
initVars == <<init_pc, hw_prior, mmio_log>>
\* what belongs to a call of enable_and_wfi()
wfiVars == <<pending, arrived, serviced>>
\* what belongs to the calls of restore(flags)
restoreVars == <<flags, rhist>>
\* the UART receiver
uartVars == <<fifo, rx>>
extVars == <<initVars, wfiVars, restoreVars, uartVars>>

\* ------------------------------------------------------------- arithmetic
RECURSIVE BitAnd(_, _)
BitAnd(a, b) ==
    IF a = 0 \/ b = 0 THEN 0
    ELSE (a % 2) * (b % 2) + 2 * BitAnd(a \div 2, b \div 2)

RECURSIVE BitOr(_, _)
BitOr(a, b) ==
    IF a = 0 THEN b
    ELSE IF b = 0 THEN a
    ELSE (IF a % 2 = 1 \/ b % 2 = 1 THEN 1 ELSE 0) + 2 * BitOr(a \div 2, b \div 2)

Bit(w, b) == (w \div (2 ^ b)) % 2

\* usize addition of the target (wrapping at the word size)
AddUsize(a, b) == (a + b) % UsizeMod

\* `ret as usize`: an isize reinterpreted as usize
AsUsize(r) == IF r < 0 THEN r + UsizeMod ELSE r

\* ------------------------------------------------------------ trap causes
Cause(kind, name) == [kind |-> kind, name |-> name]

\* scause.cause(): interrupt flag and code decoded into the tagged cause
cause(sc) ==
    IF sc.interrupt
    THEN Cause("Interrupt",
         CASE sc.code = 0 -> "UserSoft"
           [] sc.code = 1 -> "SupervisorSoft"
           [] sc.code = 4 -> "UserTimer"
           [] sc.code = 5 -> "SupervisorTimer"
           [] sc.code = 8 -> "UserExternal"
           [] sc.code = 9 -> "SupervisorExternal"
           [] OTHER -> "Unknown")
    ELSE Cause("Exception",
         CASE sc.code = 0 -> "InstructionMisaligned"
           [] sc.code = 1 -> "InstructionFault"
           [] sc.code = 2 -> "IllegalInstruction"
           [] sc.code = 3 -> "Breakpoint"
           [] sc.code = 5 -> "LoadFault"
           [] sc.code = 6 -> "StoreMisaligned"
           [] sc.code = 7 -> "StoreFault"
           [] sc.code = 8 -> "UserEnvCall"
           [] sc.code = 12 -> "InstructionPageFault"
           [] sc.code = 13 -> "LoadPageFault"
           [] sc.code = 15 -> "StorePageFault"
           [] OTHER -> "Unknown")

ScauseValues == [interrupt : BOOLEAN, code : 0 .. MaxCode]

PageFaults == {"InstructionPageFault", "LoadPageFault", "StorePageFault"}

\* the match of rust_trap: the arm a cause selects
rust_trap(c) ==
    IF c = Cause("Exception", "Breakpoint") THEN "breakpoint"
    ELSE IF c = Cause("Interrupt", "SupervisorTimer") THEN "super_timer"
    ELSE IF c = Cause("Exception", "InstructionPageFault") THEN "page_fault"
    ELSE IF c = Cause("Exception", "LoadPageFault") THEN "page_fault"
    ELSE IF c = Cause("Exception", "StorePageFault") THEN "page_fault"
    ELSE IF c = Cause("Exception", "UserEnvCall") THEN "syscall"
    ELSE IF c = Cause("Interrupt", "SupervisorExternal") THEN "external"
    ELSE "panic"

\* ------------------------------------------------------------- trap frame
\* Addresses of trapping instructions: 2-byte aligned, and followed by at
\* least ECALL_LEN bytes of address space.
SepcValues == {s \in Word : s % EBREAK_LEN = 0 /\ s + ECALL_LEN < UsizeMod}
\* stval of an entry frame: the lowest and the highest address
StvalValues == {0, UsizeMod - 1}

Frame(seed, sepc, stval, sst, sc) ==
    [x |-> [i \in 0 .. (NREGS - 1) |-> IF i = 0 THEN 0 ELSE (i + seed) % UsizeMod],
     sepc |-> sepc, sstatus |-> sst, scause |-> sc, stval |-> stval]

\* a field of the frame, as the syscall collaborator names it
Field(reg, idx) == [reg |-> reg, idx |-> idx]
\* the fields the modelled collaborator may store to
CollabFields == {Field("sepc", 0), Field("x", A0), Field("x", A1)}

FrameWrite(t, f, v) ==
    IF f.reg = "x" THEN [t EXCEPT !.x[f.idx] = v]
    ELSE IF f.reg = "sepc" THEN [t EXCEPT !.sepc = v]
    ELSE IF f.reg = "sstatus" THEN [t EXCEPT !.sstatus = v]
    ELSE [t EXCEPT !.stval = v]

\* --------------------------------------------------------------- console
Line(text, cs, nums) == [text |-> text, cause |-> cs, nums |-> nums]
Call(fn, args) == [fn |-> fn, args |-> args]

\* ------------------------------------------------------------- handlers
\* breakpoint with the width of an uncompressed ebreak
breakpoint_by4(sepc) ==
    [console |-> <<Line("a breakpoint set @0x{:x}", <<>>, <<sepc>>)>>,
     sepc |-> AddUsize(sepc, ECALL_LEN)]

\* breakpoint(&mut tf.sepc): the line printed and the new sepc
breakpoint(sepc) ==
    [console |-> <<Line("a breakpoint set @0x{:x}", <<>>, <<sepc>>)>>,
     sepc |-> AddUsize(sepc, EBREAK_LEN)]

\* super_timer with the scheduler called before the clock is rearmed
super_timer_tick_first == <<Call("tick", <<>>), Call("clock_set_next_event", <<>>)>>

\* super_timer(): the collaborators called, in order
super_timer == <<Call("clock_set_next_event", <<>>), Call("tick", <<>>)>>

\* page_fault reporting the cause and the PC without the faulting address
page_fault_no_stval(t) ==
    <<Line("{:?} instruction = {:#x}", <<cause(t.scause)>>, <<t.sepc>>),
      Line("panic: page fault!", <<>>, <<>>)>>

\* page_fault(tf): the report printed, then the panic
page_fault(t) ==
    <<Line("{:?} va = {:#x} instruction = {:#x}", <<cause(t.scause)>>,
           <<t.stval, t.sepc>>),
      Line("panic: page fault!", <<>>, <<>>)>>

\* the default arm of rust_trap
undefined_trap(t) == <<Line("panic: undefined trap!", <<>>, <<>>)>>

\* a syscall entry that passes a1 before a0
syscall_enter_a1_first(t) ==
    LET t1 == [t EXCEPT !.sepc = AddUsize(t.sepc, ECALL_LEN)]
    IN  [tf |-> t1,
         call |-> Call("syscall", <<t1.x[A7], t1.x[A1], t1.x[A0], t1.x[A2]>>)]

\* syscall(tf), up to the call of the collaborator
syscall_enter(t) ==
    LET t1 == [t EXCEPT !.sepc = AddUsize(t.sepc, ECALL_LEN)]
    IN  [tf |-> t1,
         call |-> Call("syscall", <<t1.x[A7], t1.x[A0], t1.x[A1], t1.x[A2]>>)]

\* syscall dropping the collaborator's return value
syscall_exit_dropped(t, r) == t

\* syscall(tf), after the collaborator returned r
syscall_exit(t, r) == [t EXCEPT !.x[A0] = AsUsize(r)]

\* what getchar_option can return: <<>> is None, <<ch>> is Some(ch)
Chars == {CR, LF, OtherChar}
GetcharResults == {<<>>} \cup {<<ch>> : ch \in Chars}

\* try_serial pushing the character as read, carriage returns included
try_serial_raw(opt, stdin) ==
    IF opt # <<>>
    THEN [ok |-> TRUE, STDIN |-> Append(stdin, opt[1]), pushed |-> TRUE]
    ELSE [ok |-> FALSE, STDIN |-> stdin, pushed |-> FALSE]

\* try_serial reporting success whether or not a character was read
try_serial_always_ok(opt, stdin) ==
    IF opt # <<>>
    THEN [ok |-> TRUE,
          STDIN |-> IF opt[1] = CR THEN Append(stdin, LF) ELSE Append(stdin, opt[1]),
          pushed |-> TRUE]
    ELSE [ok |-> TRUE, STDIN |-> stdin, pushed |-> FALSE]

\* try_serial(): the returned flag and the buffer, given getchar_option's result
try_serial(opt, stdin) ==
    IF opt # <<>>
    THEN [ok |-> TRUE,
          STDIN |-> IF opt[1] = CR THEN Append(stdin, LF) ELSE Append(stdin, opt[1]),
          pushed |-> TRUE]
    ELSE [ok |-> FALSE, STDIN |-> stdin, pushed |-> FALSE]

\* an external() that pushes only into an empty buffer
external_unless_empty(opt, stdin) ==
    IF stdin = <<>> THEN try_serial(opt, stdin).STDIN ELSE stdin

\* external(): let _ = try_serial(); the buffer it leaves
external(opt, stdin) == try_serial(opt, stdin).STDIN

\* ------------------------------------------------------ masking primitives
\* csrci clearing the bit below the one asked for (1 << 0 for 1 << 1)
csrci_wrong_bit(reg, imm) == BitAnd(reg, (UsizeMod - 1) - (imm \div 2))

\* csrci csr, imm: clear the bits of imm
csrci(reg, imm) == BitAnd(reg, (UsizeMod - 1) - imm)

\* csrs csr, rs: set the bits of rs
csrs(reg, rs) == BitOr(reg, rs)

\* enable_and_wfi without its csrsi
csrsi_absent(reg, imm) == reg

\* csrsi reg, imm: set the bits of the immediate
csrsi(reg, imm) == BitOr(reg, imm)

\* The value disable_and_store returns.  The asm template "csrci sstatus, 1 << 1"
\* names no output operand ($0), so the register bound to "=r"(sstatus) is never
\* written: the function returns whatever that register held.
disable_and_store(prior, cleared) == Word

\* restore as a full CSR write of the token
restore_csrw(reg, token) == token

\* restore setting only the interrupt-enable bit of the token
restore_sie_only(reg, token) == BitOr(reg, BitAnd(token, SIE))

\* restore(flags)
restore(reg, token) == csrs(reg, token)

\* ------------------------------------------------------ init's hardware
\* PLIC and UART registers, by physical address
MmioAddrs == {PLIC_MTH, PLIC_PRIORITY + 4 * SERIAL_IRQ, PLIC_ENABLES,
              UART16550 + UART_MCR, UART16550 + UART_IER}

\* init_external_interrupt enabling the source below the UART's
init_external_interrupt_irq9(m) ==
    [m EXCEPT ![PLIC_MTH] = 0,
              ![PLIC_PRIORITY + 4 * SERIAL_IRQ] = 1,
              ![PLIC_ENABLES] = 2 ^ (SERIAL_IRQ - 1)]

\* init_external_interrupt(): three volatile word stores
init_external_interrupt(m) ==
    [m EXCEPT ![PLIC_MTH] = 0,
              ![PLIC_PRIORITY + 4 * SERIAL_IRQ] = 1,
              ![PLIC_ENABLES] = 2 ^ SERIAL_IRQ]

\* enable_serial_interrupt(): two volatile byte stores
enable_serial_interrupt(m) ==
    [m EXCEPT ![UART16550 + UART_MCR] = MCR_VALUE,
              ![UART16550 + UART_IER] = IER_VALUE]

\* init writing sie instead of setting one bit of it
init_csr_sie_write(c) ==
    [sscratch |-> 0,
     stvec |-> [base |-> "__alltraps", mode |-> "Direct"],
     sie |-> SEXT]

\* the CSR writes of init(), sstatus apart
init_csr(c) ==
    [sscratch |-> 0,
     stvec |-> [base |-> "__alltraps", mode |-> "Direct"],
     sie |-> BitOr(c.sie, SEXT)]

\* a step of init(): what it does and, for a store, the address
Step(op, addr) == [op |-> op, addr |-> addr]

\* init() enabling interrupts before the trap vector is installed
init_program_sie_first ==
    <<Step("set_sie", 0), Step("set_sext", 0),
      Step("sscratch", 0), Step("stvec", 0),
      Step("plic", PLIC_MTH), Step("plic", PLIC_PRIORITY + 4 * SERIAL_IRQ),
      Step("plic", PLIC_ENABLES),
      Step("uart", UART16550 + UART_MCR), Step("uart", UART16550 + UART_IER),
      Step("println", 0)>>

\* init() switching the UART interrupt on before the PLIC is programmed
init_program_uart_first ==
    <<Step("sscratch", 0), Step("stvec", 0),
      Step("set_sie", 0), Step("set_sext", 0),
      Step("uart", UART16550 + UART_MCR), Step("uart", UART16550 + UART_IER),
      Step("plic", PLIC_MTH), Step("plic", PLIC_PRIORITY + 4 * SERIAL_IRQ),
      Step("plic", PLIC_ENABLES),
      Step("println", 0)>>

\* the statements of init(), init_external_interrupt() and
\* enable_serial_interrupt() in program order
init_program ==
    <<Step("sscratch", 0), Step("stvec", 0),
      Step("set_sie", 0), Step("set_sext", 0),
      Step("plic", PLIC_MTH), Step("plic", PLIC_PRIORITY + 4 * SERIAL_IRQ),
      Step("plic", PLIC_ENABLES),
      Step("uart", UART16550 + UART_MCR), Step("uart", UART16550 + UART_IER),
      Step("println", 0)>>

\* the hardware as init() leaves it, from registers that read zero before
BootCsr == init_csr([sscratch |-> 0, stvec |-> [base |-> "none", mode |-> "Direct"],
                     sie |-> 0])
BootMmio == enable_serial_interrupt(init_external_interrupt([a \in MmioAddrs |-> 0]))
NoSnapshot == [sstatus |-> 0, csr |-> BootCsr, mmio |-> BootMmio]

\* a dispatcher that re-enables interrupts while it handles the trap
rust_trap_sstatus_enable(s) == BitOr(s, SIE)

\* what rust_trap and its handlers do to sstatus: lines 51-106 hold no CSR
\* access, the value is left as it is
rust_trap_sstatus(s) == s

\* ---------------------------------------------------------------- Init
TrapIdle ==
    /\ tf = Frame(0, 0, 0, 0, [interrupt |-> FALSE, code |-> 0])
    /\ tf0 = tf
    /\ calls = <<>>
    /\ console = <<>>
    /\ STDIN = <<>>
    /\ STDIN0 = <<>>
    /\ serial_ok = <<>>
    /\ written = {}
    /\ ret = <<>>
    /\ hw0 = NoSnapshot
    /\ spie = FALSE

MaskIdle ==
    /\ tokens = <<>>
    /\ das_prior = 0
    /\ outer_sie = 0
    /\ last = "none"
    /\ trap_at = {}

HwIdle ==
    /\ csr = BootCsr
    /\ mmio = BootMmio

InitIdle ==
    /\ init_pc = 0
    /\ hw_prior = NoSnapshot
    /\ mmio_log = <<>>

WfiIdle ==
    /\ pending = FALSE
    /\ arrived = 0
    /\ serviced = 0

RestoreIdle ==
    /\ flags = 0
    /\ rhist = <<>>

UartIdle ==
    /\ fifo = <<>>
    /\ rx = <<>>

Init ==
    /\ pc = "running"
    /\ sstatus \in {0, SIE}
    /\ HwIdle
    /\ TrapIdle
    /\ MaskIdle
    /\ nested = FALSE
    /\ InitIdle
    /\ WfiIdle
    /\ RestoreIdle
    /\ UartIdle

\* ------------------------------------------------------ the trap machine
\* Hardware and the assembly stub: a trap is taken, SIE is saved in SPIE and
\* cleared, the stub stores the frame and calls rust_trap.  While the
\* dispatcher runs, an interrupt is taken only if sstatus.SIE is set.
Trap(seed, sepc, stval, sc) ==
    /\ \/ pc = "running"
       \/ /\ pc \in {"rust_trap", "syscall", "returned"}
          /\ sc.interrupt
          /\ Bit(sstatus, 1) = 1
    /\ nested' = (nested \/ pc # "running")
    /\ (cause(sc) = Cause("Interrupt", "SupervisorExternal")) => Len(STDIN) < MaxStdin
    /\ spie' = (Bit(sstatus, 1) = 1)
    /\ sstatus' = csrci(sstatus, SIE)
    /\ hw0' = [sstatus |-> sstatus', csr |-> csr, mmio |-> mmio]
    /\ tf' = Frame(seed, sepc, stval, sstatus', sc)
    /\ tf0' = tf'
    /\ calls' = <<>>
    /\ console' = <<>>
    /\ STDIN0' = STDIN
    /\ serial_ok' = <<>>
    /\ written' = {}
    /\ ret' = <<>>
    /\ pc' = "rust_trap"
    /\ UNCHANGED <<STDIN, hwVars, maskVars, extVars>>

TrapBreakpoint ==
    /\ pc = "rust_trap"
    /\ rust_trap(cause(tf.scause)) = "breakpoint"
    /\ LET r == breakpoint(tf.sepc)
       IN  /\ console' = console \o r.console
           /\ tf' = [tf EXCEPT !.sepc = r.sepc]
    /\ pc' = "returned"
    /\ sstatus' = rust_trap_sstatus(sstatus)
    /\ UNCHANGED <<tf0, calls, STDIN, STDIN0, serial_ok, written, ret,
                   hw0, spie, hwVars, maskVars, extVars, nested>>

TrapSuperTimer ==
    /\ pc = "rust_trap"
    /\ rust_trap(cause(tf.scause)) = "super_timer"
    /\ calls' = calls \o super_timer
    /\ pc' = "returned"
    /\ sstatus' = rust_trap_sstatus(sstatus)
    /\ UNCHANGED <<tf, tf0, console, STDIN, STDIN0, serial_ok, written, ret,
                   hw0, spie, hwVars, maskVars, extVars, nested>>

TrapPageFault ==
    /\ pc = "rust_trap"
    /\ rust_trap(cause(tf.scause)) = "page_fault"
    /\ console' = console \o page_fault(tf)
    /\ pc' = "halted"
    /\ sstatus' = rust_trap_sstatus(sstatus)
    /\ UNCHANGED <<tf, tf0, calls, STDIN, STDIN0, serial_ok, written, ret,
                   hw0, spie, hwVars, maskVars, extVars, nested>>

TrapUndefined ==
    /\ pc = "rust_trap"
    /\ rust_trap(cause(tf.scause)) = "panic"
    /\ console' = console \o undefined_trap(tf)
    /\ pc' = "halted"
    /\ sstatus' = rust_trap_sstatus(sstatus)
    /\ UNCHANGED <<tf, tf0, calls, STDIN, STDIN0, serial_ok, written, ret,
                   hw0, spie, hwVars, maskVars, extVars, nested>>

\* syscall(tf): sepc += 4, then crate::syscall::syscall is called
TrapSyscall ==
    /\ pc = "rust_trap"
    /\ rust_trap(cause(tf.scause)) = "syscall"
    /\ LET r == syscall_enter(tf)
       IN  /\ tf' = r.tf
           /\ calls' = Append(calls, r.call)
    /\ pc' = "syscall"
    /\ sstatus' = rust_trap_sstatus(sstatus)
    /\ UNCHANGED <<tf0, console, STDIN, STDIN0, serial_ok, written, ret,
                   hw0, spie, hwVars, maskVars, extVars, nested>>

\* the syscall collaborator stores v to field f of the frame it was handed
CollabWrite(f, v) ==
    /\ pc = "syscall"
    /\ \A w \in written : w.f # f
    /\ tf' = FrameWrite(tf, f, v)
    /\ written' = written \cup {[f |-> f, v |-> v]}
    /\ UNCHANGED <<pc, tf0, calls, console, STDIN, STDIN0, serial_ok, ret,
                   sstatus, hw0, spie, hwVars, maskVars, extVars, nested>>

\* the collaborator returns r; syscall(tf) stores it in x[10] and returns
SyscallReturn(r) ==
    /\ pc = "syscall"
    /\ ret' = <<r>>
    /\ tf' = syscall_exit(tf, r)
    /\ pc' = "returned"
    /\ sstatus' = rust_trap_sstatus(sstatus)
    /\ UNCHANGED <<tf0, calls, console, STDIN, STDIN0, serial_ok, written,
                   hw0, spie, hwVars, maskVars, extVars, nested>>

\* external(): let _ = try_serial()
TrapExternal(opt) ==
    /\ pc = "rust_trap"
    /\ rust_trap(cause(tf.scause)) = "external"
    /\ LET r == try_serial(opt, STDIN)
       IN  /\ STDIN' = r.STDIN
           /\ serial_ok' = <<r.ok>>
           /\ calls' = calls \o <<Call("getchar_option", opt)>>
                             \o (IF r.pushed THEN <<Call("STDIN.push", <<>>)>> ELSE <<>>)
    /\ pc' = "returned"
    /\ sstatus' = rust_trap_sstatus(sstatus)
    /\ UNCHANGED <<tf, tf0, console, STDIN0, written, ret,
                   hw0, spie, hwVars, maskVars, extVars, nested>>

\* the stub restores the registers from the frame and executes sret: SIE is
\* restored from SPIE and the frame's lifetime ends
Sret ==
    /\ pc = "returned"
    /\ sstatus' = (IF spie THEN csrs(sstatus, SIE) ELSE csrci(sstatus, SIE))
    /\ pc' = "running"
    /\ tf' = Frame(0, 0, 0, 0, [interrupt |-> FALSE, code |-> 0])
    /\ tf0' = tf'
    /\ calls' = <<>>
    /\ console' = <<>>
    /\ STDIN0' = <<>>
    /\ serial_ok' = <<>>
    /\ written' = {}
    /\ ret' = <<>>
    /\ hw0' = NoSnapshot
    /\ spie' = FALSE
    /\ UNCHANGED <<STDIN, hwVars, maskVars, extVars, nested>>

\* the reader of the line discipline takes the oldest character
StdinPop ==
    /\ pc = "running"
    /\ STDIN # <<>>
    /\ STDIN' = Tail(STDIN)
    /\ UNCHANGED <<pc, tf, tf0, calls, console, STDIN0, serial_ok, written, ret,
                   sstatus, hw0, spie, hwVars, maskVars, extVars, nested>>

Next ==
    \/ \E seed \in 0 .. MaxSeed, sepc \in SepcValues, stval \in StvalValues,
          sc \in ScauseValues : Trap(seed, sepc, stval, sc)
    \/ TrapBreakpoint
    \/ TrapSuperTimer
    \/ TrapPageFault
    \/ TrapUndefined
    \/ TrapSyscall
    \/ \E f \in CollabFields, v \in 0 .. MaxRet : CollabWrite(f, v)
    \/ \E r \in -1 .. MaxRet : SyscallReturn(r)
    \/ \E opt \in GetcharResults : TrapExternal(opt)
    \/ Sret
    \/ StdinPop

Spec == Init /\ [][Next]_vars

\* ------------------------------------------------- the masking machine
MaskInit ==
    /\ pc = "running"
    /\ sstatus \in Word
    /\ HwIdle
    /\ TrapIdle
    /\ MaskIdle
    /\ nested = FALSE
    /\ InitIdle
    /\ WfiIdle
    /\ RestoreIdle
    /\ UartIdle

\* disable_and_store(), the csrci instruction (entering a critical section)
DisableAndStoreCsrci ==
    /\ pc = "running"
    /\ Len(tokens) < MaxDepth
    /\ das_prior' = sstatus
    /\ outer_sie' = (IF tokens = <<>> THEN Bit(sstatus, 1) ELSE outer_sie)
    /\ sstatus' = csrci(sstatus, SIE)
    /\ pc' = "disable_and_store"
    /\ UNCHANGED <<frameVars, STDIN, hwVars, extVars, nested, tokens, last, trap_at>>

\* disable_and_store() returns; the caller keeps the token
DisableAndStoreReturn ==
    /\ pc = "disable_and_store"
    /\ \E token \in disable_and_store(das_prior, sstatus) :
          tokens' = Append(tokens, token)
    /\ last' = "disable_and_store"
    /\ pc' = "running"
    /\ UNCHANGED <<frameVars, STDIN, hwVars, extVars, nested, sstatus, das_prior, outer_sie, trap_at>>

\* restore(token) of the innermost open critical section
Restore ==
    /\ pc = "running"
    /\ tokens # <<>>
    /\ sstatus' = restore(sstatus, tokens[Len(tokens)])
    /\ tokens' = SubSeq(tokens, 1, Len(tokens) - 1)
    /\ last' = "restore"
    /\ das_prior' = 0
    /\ UNCHANGED <<pc, frameVars, STDIN, hwVars, extVars, nested, outer_sie, trap_at>>

\* where the thread is with respect to its critical sections
Position ==
    IF pc = "disable_and_store" THEN "das"
    ELSE IF tokens # <<>> THEN "bracket"
    ELSE "outside"

\* an interrupt is taken (S-mode takes one only while sstatus.SIE is set), is
\* serviced to completion and returns to the interrupted thread
Interrupt ==
    /\ pc \in {"running", "disable_and_store"}
    /\ Bit(sstatus, 1) = 1
    /\ trap_at' = trap_at \cup {Position}
    /\ UNCHANGED <<pc, frameVars, STDIN, hwVars, extVars, nested, sstatus, tokens, das_prior,
                   outer_sie, last>>

MaskNext ==
    \/ DisableAndStoreCsrci
    \/ DisableAndStoreReturn
    \/ Restore
    \/ Interrupt

MaskSpec == MaskInit /\ [][MaskNext]_vars

\* ----------------------------------------------------- restore, by itself
RestoreInit ==
    /\ pc = "running"
    /\ sstatus \in Word
    /\ flags \in Word
    /\ rhist = <<>>
    /\ HwIdle
    /\ TrapIdle
    /\ MaskIdle
    /\ nested = FALSE
    /\ InitIdle
    /\ WfiIdle
    /\ UartIdle

\* restore(flags) is called, again with the same flags
RestoreCall ==
    /\ Len(rhist) < MaxCalls
    /\ rhist' = Append(rhist, sstatus)
    /\ sstatus' = restore(sstatus, flags)
    /\ UNCHANGED <<pc, frameVars, STDIN, hwVars, maskVars, nested, initVars,
                   wfiVars, flags, uartVars>>

RestoreNext == RestoreCall

RestoreSpec == RestoreInit /\ [][RestoreNext]_vars

\* ------------------------------------------------------------- init()
\* what the hardware may hold when init() is called
PriorSstatus == Word
PriorSscratch == {0, UsizeMod - 1}
PriorStvec == {[base |-> "none", mode |-> "Direct"],
               [base |-> "firmware", mode |-> "Vectored"]}
\* sie: any of SSIE (bit 1), STIE (bit 5), SEIE (bit 9)
PriorSie == {a + b + c : a \in {0, 2 ^ 1}, b \in {0, 2 ^ 5}, c \in {0, SEXT}}
\* the PLIC and UART registers: zero, or all of the low SERIAL_IRQ + 1 bits set
PriorMmio == [MmioAddrs -> {0, 2 ^ (SERIAL_IRQ + 1) - 1}]

InitInit ==
    /\ pc = "init"
    /\ init_pc = 1
    /\ sstatus \in PriorSstatus
    /\ csr \in [sscratch : PriorSscratch, stvec : PriorStvec, sie : PriorSie]
    /\ mmio \in PriorMmio
    /\ hw_prior = [sstatus |-> sstatus, csr |-> csr, mmio |-> mmio]
    /\ mmio_log = <<>>
    /\ TrapIdle
    /\ MaskIdle
    /\ nested = FALSE
    /\ WfiIdle
    /\ RestoreIdle
    /\ UartIdle

\* the step of init() that runs next
InitAt(op) ==
    /\ pc = "init"
    /\ init_pc \in 1 .. Len(init_program)
    /\ init_program[init_pc].op = op

\* sscratch::write(0)
InitSscratch ==
    /\ InitAt("sscratch")
    /\ csr' = [csr EXCEPT !.sscratch = init_csr(csr).sscratch]
    /\ init_pc' = init_pc + 1
    /\ UNCHANGED <<pc, frameVars, STDIN, sstatus, mmio, maskVars, nested,
                   hw_prior, mmio_log, wfiVars, restoreVars, uartVars>>

\* stvec::write(__alltraps as usize, stvec::TrapMode::Direct)
InitStvec ==
    /\ InitAt("stvec")
    /\ csr' = [csr EXCEPT !.stvec = init_csr(csr).stvec]
    /\ init_pc' = init_pc + 1
    /\ UNCHANGED <<pc, frameVars, STDIN, sstatus, mmio, maskVars, nested,
                   hw_prior, mmio_log, wfiVars, restoreVars, uartVars>>

\* sstatus::set_sie()
InitSetSie ==
    /\ InitAt("set_sie")
    /\ sstatus' = csrs(sstatus, SIE)
    /\ init_pc' = init_pc + 1
    /\ UNCHANGED <<pc, frameVars, STDIN, hwVars, maskVars, nested,
                   hw_prior, mmio_log, wfiVars, restoreVars, uartVars>>

\* sie::set_sext()
InitSetSext ==
    /\ InitAt("set_sext")
    /\ csr' = [csr EXCEPT !.sie = init_csr(csr).sie]
    /\ init_pc' = init_pc + 1
    /\ UNCHANGED <<pc, frameVars, STDIN, sstatus, mmio, maskVars, nested,
                   hw_prior, mmio_log, wfiVars, restoreVars, uartVars>>

\* one volatile store of init_external_interrupt()
InitPlicStore ==
    /\ InitAt("plic")
    /\ LET a == init_program[init_pc].addr
       IN  /\ mmio' = [mmio EXCEPT ![a] = init_external_interrupt(mmio)[a]]
           /\ mmio_log' = Append(mmio_log, a)
    /\ init_pc' = init_pc + 1
    /\ UNCHANGED <<pc, frameVars, STDIN, sstatus, csr, maskVars, nested,
                   hw_prior, wfiVars, restoreVars, uartVars>>

\* one volatile store of enable_serial_interrupt()
InitUartStore ==
    /\ InitAt("uart")
    /\ LET a == init_program[init_pc].addr
       IN  /\ mmio' = [mmio EXCEPT ![a] = enable_serial_interrupt(mmio)[a]]
           /\ mmio_log' = Append(mmio_log, a)
    /\ init_pc' = init_pc + 1
    /\ UNCHANGED <<pc, frameVars, STDIN, sstatus, csr, maskVars, nested,
                   hw_prior, wfiVars, restoreVars, uartVars>>

\* println!("++++ setup interrupt! ++++"); init() returns
InitPrintln ==
    /\ InitAt("println")
    /\ console' = Append(console, Line("++++ setup interrupt! ++++", <<>>, <<>>))
    /\ init_pc' = init_pc + 1
    /\ pc' = IF init_pc = Len(init_program) THEN "running" ELSE pc
    /\ UNCHANGED <<tf, tf0, calls, STDIN, STDIN0, serial_ok, written, ret, hw0,
                   spie, sstatus, hwVars, maskVars, nested, hw_prior, mmio_log,
                   wfiVars, restoreVars, uartVars>>

InitNext ==
    \/ InitSscratch
    \/ InitStvec
    \/ InitSetSie
    \/ InitSetSext
    \/ InitPlicStore
    \/ InitUartStore
    \/ InitPrintln

InitSpec == InitInit /\ [][InitNext]_vars

\* ---------------------------------------------------- enable_and_wfi()
WfiInit ==
    /\ pc = "csrsi"
    /\ sstatus \in Word
    /\ pending \in BOOLEAN
    /\ arrived = (IF pending THEN 1 ELSE 0)
    /\ serviced = 0
    /\ HwIdle
    /\ TrapIdle
    /\ MaskIdle
    /\ nested = FALSE
    /\ InitIdle
    /\ RestoreIdle
    /\ UartIdle

\* an interrupt that is pending and enabled is taken before the next instruction
Deliverable == pending /\ Bit(sstatus, 1) = 1

\* an interrupt enabled in sie becomes pending
WfiIrqArrive ==
    /\ pc # "returned"
    /\ ~pending
    /\ arrived < MaxIrq
    /\ pending' = TRUE
    /\ arrived' = arrived + 1
    /\ UNCHANGED <<pc, frameVars, STDIN, sstatus, hwVars, maskVars, nested,
                   initVars, serviced, restoreVars, uartVars>>

\* csrsi sstatus, 1 << 1
WfiCsrsi ==
    /\ pc = "csrsi"
    /\ ~Deliverable
    /\ sstatus' = csrsi(sstatus, SIE)
    /\ pc' = "wfi"
    /\ UNCHANGED <<frameVars, STDIN, hwVars, maskVars, nested, extVars>>

\* wfi: the hart parks, or goes on when an interrupt is pending with SIE clear
WfiExecute ==
    /\ pc = "wfi"
    /\ ~Deliverable
    /\ pc' = IF pending THEN "returned" ELSE "parked"
    /\ UNCHANGED <<frameVars, STDIN, sstatus, hwVars, maskVars, nested, extVars>>

\* a pending interrupt wakes the parked hart: the trap is taken if SIE is set,
\* otherwise the hart goes on behind wfi
WfiWake ==
    /\ pc = "parked"
    /\ pending
    /\ IF Bit(sstatus, 1) = 1
       THEN /\ trap_at' = trap_at \cup {pc}
            /\ last' = pc
            /\ sstatus' = csrci(sstatus, SIE)
            /\ pc' = "rust_trap"
       ELSE /\ pc' = "returned"
            /\ UNCHANGED <<sstatus, last, trap_at>>
    /\ UNCHANGED <<frameVars, STDIN, hwVars, tokens, das_prior, outer_sie,
                   nested, extVars>>

\* the trap is taken before csrsi or before wfi
WfiTrap ==
    /\ pc \in {"csrsi", "wfi"}
    /\ Deliverable
    /\ trap_at' = trap_at \cup {pc}
    /\ last' = pc
    /\ sstatus' = csrci(sstatus, SIE)
    /\ pc' = "rust_trap"
    /\ UNCHANGED <<frameVars, STDIN, hwVars, tokens, das_prior, outer_sie,
                   nested, extVars>>

\* the dispatcher services the interrupt; its source is quenched
WfiService ==
    /\ pc = "rust_trap"
    /\ pending' = FALSE
    /\ serviced' = serviced + 1
    /\ pc' = "sret"
    /\ UNCHANGED <<frameVars, STDIN, sstatus, hwVars, maskVars, nested,
                   initVars, arrived, restoreVars, uartVars>>

\* sret: SIE is on again; a trap that woke the parked hart returns behind wfi
WfiSret ==
    /\ pc = "sret"
    /\ sstatus' = csrs(sstatus, SIE)
    /\ pc' = IF last = "parked" THEN "returned" ELSE last
    /\ UNCHANGED <<frameVars, STDIN, hwVars, maskVars, nested, extVars>>

WfiNext ==
    \/ WfiIrqArrive
    \/ WfiCsrsi
    \/ WfiExecute
    \/ WfiWake
    \/ WfiTrap
    \/ WfiService
    \/ WfiSret

WfiSpec == WfiInit /\ [][WfiNext]_vars

\* ------------------------------------------------- the UART receive path
\* STDIN is not read here, so it is the sequence of all pushes
UartInit ==
    /\ pc = "running"
    /\ sstatus = SIE
    /\ fifo = <<>>
    /\ rx = <<>>
    /\ HwIdle
    /\ TrapIdle
    /\ MaskIdle
    /\ nested = FALSE
    /\ InitIdle
    /\ WfiIdle
    /\ RestoreIdle

\* a byte enters the receive FIFO
UartReceive(ch) ==
    /\ Len(rx) < MaxBytes
    /\ Len(fifo) < FifoDepth
    /\ fifo' = Append(fifo, ch)
    /\ rx' = Append(rx, ch)
    /\ UNCHANGED <<pc, frameVars, STDIN, sstatus, hwVars, maskVars, nested,
                   initVars, wfiVars, restoreVars>>

\* what getchar_option() reads: the oldest byte of the FIFO, or "not ready"
getchar_option == IF fifo = <<>> THEN <<>> ELSE <<Head(fifo)>>

\* a SupervisorExternal trap from entry to sret: external() runs once
UartExternal ==
    /\ STDIN' = external(getchar_option, STDIN)
    /\ fifo' = IF fifo = <<>> THEN fifo ELSE Tail(fifo)
    /\ UNCHANGED <<pc, frameVars, sstatus, hwVars, maskVars, nested,
                   initVars, wfiVars, restoreVars, rx>>

UartNext ==
    \/ \E ch \in Chars : UartReceive(ch)
    \/ UartExternal

UartSpec == UartInit /\ [][UartNext]_vars

\* the UART keeps its interrupt asserted while the FIFO is not empty, so the
\* trap that changes the state keeps being taken
UartFairSpec == UartSpec /\ WF_vars(UartExternal)

\* ================================================================ claims
\* the dispatch of a frame with cause c has run (it returned, halted, or is
\* inside the syscall collaborator)
Dispatched(c) ==
    /\ pc \in {"syscall", "returned", "halted"}
    /\ cause(tf0.scause) = c

WrittenFields == {w.f : w \in written}
WrittenValue(f) == (CHOOSE w \in written : w.f = f).v

\* x[10] holds the collaborator's return value and every field but sepc and
\* x[10] holds its entry value, or the value the collaborator stored to it
SyscallOtherFields ==
    /\ ret # <<>>
    /\ tf.x[A0] = AsUsize(ret[1])
    /\ \A i \in (0 .. (NREGS - 1)) \ {A0} :
          tf.x[i] = (IF Field("x", i) \in WrittenFields
                     THEN WrittenValue(Field("x", i)) ELSE tf0.x[i])
    /\ tf.sstatus = tf0.sstatus
    /\ tf.scause = tf0.scause
    /\ tf.stval = tf0.stval

\* C1 as stated: after a UserEnvCall has been dispatched, whatever the syscall
\* collaborator did, sepc is the entry value plus 4, x[10] is the value the
\* collaborator returned and every other register holds its entry value unless
\* the collaborator wrote it.
C1_AsStated ==
    (Dispatched(Cause("Exception", "UserEnvCall")) /\ pc # "syscall") =>
        /\ pc = "returned"
        /\ tf.sepc = tf0.sepc + 4
        /\ SyscallOtherFields

\* C1 amended: sepc is the entry value plus 4 unless the collaborator stored to
\* sepc, and is then the value it stored; x[10] is the value the collaborator
\* returned; every other register holds its entry value unless the collaborator
\* wrote it.
C1_SyscallFrame ==
    (Dispatched(Cause("Exception", "UserEnvCall")) /\ pc # "syscall") =>
        /\ pc = "returned"
        /\ tf.sepc = (IF Field("sepc", 0) \in WrittenFields
                      THEN WrittenValue(Field("sepc", 0)) ELSE tf0.sepc + 4)
        /\ SyscallOtherFields

\* C1 witness: a UserEnvCall returned whose collaborator stored to sepc and to
\* x[10] and returned a negative value
C1_Witness ==
    /\ Dispatched(Cause("Exception", "UserEnvCall"))
    /\ pc = "returned"
    /\ Field("sepc", 0) \in WrittenFields
    /\ Field("x", A0) \in WrittenFields
    /\ tf.sepc # tf0.sepc + 4
    /\ ret = <<-1>>

\* C2 as stated: the token disable_and_store returns is the value sstatus held
\* just before the call.
C2_TokenIsPriorSstatus ==
    (pc = "running" /\ last = "disable_and_store") =>
        tokens[Len(tokens)] = das_prior

\* C3 as stated: inside any critical section sstatus bit 1 is 0 and no trap is
\* taken, and after the outermost restore bit 1 has the value it had just
\* before the outermost disable_and_store.
C3_Bracket ==
    /\ (tokens # <<>> \/ pc = "disable_and_store") => Bit(sstatus, 1) = 0
    /\ "bracket" \notin trap_at
    /\ "das" \notin trap_at
    /\ (pc = "running" /\ last = "restore" /\ tokens = <<>>) =>
          Bit(sstatus, 1) = outer_sie

\* C4: after a Breakpoint has been dispatched, sepc is the entry value plus 2,
\* every other field of the frame is unchanged, and no collaborator was called.
C4_Breakpoint ==
    Dispatched(Cause("Exception", "Breakpoint")) =>
        /\ pc = "returned"
        /\ tf.sepc = tf0.sepc + 2
        /\ [tf EXCEPT !.sepc = tf0.sepc] = tf0
        /\ calls = <<>>
        /\ STDIN = STDIN0

\* C4 witness: a Breakpoint dispatch returned
C4_Witness ==
    /\ Dispatched(Cause("Exception", "Breakpoint"))
    /\ pc = "returned"
    /\ tf0.sepc > 0

\* C5: after a SupervisorTimer has been dispatched, clock_set_next_event was
\* called once and tick once, clock_set_next_event first, and the frame is
\* unchanged.
C5_SuperTimer ==
    Dispatched(Cause("Interrupt", "SupervisorTimer")) =>
        /\ pc = "returned"
        /\ Len(calls) = 2
        /\ calls[1].fn = "clock_set_next_event"
        /\ calls[2].fn = "tick"
        /\ tf = tf0

\* C5 witness: a SupervisorTimer dispatch returned
C5_Witness ==
    /\ Dispatched(Cause("Interrupt", "SupervisorTimer"))
    /\ pc = "returned"

\* C6: a page fault never returns: it ends halted, having reported the cause,
\* stval and sepc of the frame, with the frame unchanged and no collaborator
\* called.
C6_PageFault ==
    \A n \in PageFaults :
        Dispatched(Cause("Exception", n)) =>
            /\ pc = "halted"
            /\ \E i \in 1 .. Len(console) :
                  /\ console[i].cause = <<Cause("Exception", n)>>
                  /\ console[i].nums = <<tf0.stval, tf0.sepc>>
            /\ tf = tf0
            /\ calls = <<>>
            /\ STDIN = STDIN0

\* C6 witness: a StorePageFault halted the kernel, stval and sepc differing
C6_Witness ==
    /\ Dispatched(Cause("Exception", "StorePageFault"))
    /\ pc = "halted"
    /\ tf0.stval # tf0.sepc

\* the causes rust_trap has an arm for
Recognized ==
    {Cause("Exception", "Breakpoint"), Cause("Interrupt", "SupervisorTimer"),
     Cause("Exception", "UserEnvCall"), Cause("Interrupt", "SupervisorExternal")}
    \cup {Cause("Exception", n) : n \in PageFaults}

\* C7 as stated: an unrecognized cause halts the kernel with a diagnostic that
\* names the cause; the dispatcher never returns.
C7_UndefinedNamesCause ==
    (pc \in {"returned", "halted"} /\ cause(tf0.scause) \notin Recognized) =>
        /\ pc = "halted"
        /\ \E i \in 1 .. Len(console) : console[i].cause = <<cause(tf0.scause)>>

\* the character getchar_option returned to this dispatch, if it was called
Getchar == calls[1].args

\* C8: after a SupervisorExternal dispatch in which getchar_option returned a
\* character c, STDIN is its entry content with one character appended, LF
\* when c is CR and c otherwise, try_serial returned true and the frame is
\* unchanged.
C8_SerialPush ==
    (Dispatched(Cause("Interrupt", "SupervisorExternal")) /\ Getchar # <<>>) =>
        /\ pc = "returned"
        /\ STDIN = Append(STDIN0, IF Getchar[1] = CR THEN LF ELSE Getchar[1])
        /\ serial_ok = <<TRUE>>
        /\ tf = tf0

\* C8 witness: a carriage return arrived and a line feed was pushed behind
\* older input
C8_Witness ==
    /\ Dispatched(Cause("Interrupt", "SupervisorExternal"))
    /\ Getchar = <<CR>>
    /\ STDIN = <<OtherChar, LF>>

\* C9: after a SupervisorExternal dispatch in which getchar_option returned
\* None, STDIN, the frame, sstatus, the other CSRs and the PLIC and UART
\* registers are as at entry, try_serial returned false and the dispatcher
\* returned.
C9_SerialNotReady ==
    (Dispatched(Cause("Interrupt", "SupervisorExternal")) /\ Getchar = <<>>) =>
        /\ pc = "returned"
        /\ STDIN = STDIN0
        /\ tf = tf0
        /\ [sstatus |-> sstatus, csr |-> csr, mmio |-> mmio] = hw0
        /\ serial_ok = <<FALSE>>
        /\ Len(calls) = 1

\* C9 witness: getchar_option returned None
C9_Witness ==
    /\ Dispatched(Cause("Interrupt", "SupervisorExternal"))
    /\ Getchar = <<>>
    /\ pc = "returned"

\* C10: from the csrci of disable_and_store until something else runs, sstatus
\* bit 1 is 0, every other bit of sstatus is as before the call, and no trap
\* is taken between the csrci and the return of the token.
C10_DisableClearsSie ==
    /\ (pc = "disable_and_store" \/ (pc = "running" /\ last = "disable_and_store")) =>
          /\ Bit(sstatus, 1) = 0
          /\ \A b \in (0 .. (UsizeBits - 1)) \ {1} : Bit(sstatus, b) = Bit(das_prior, b)
    /\ "das" \notin trap_at

\* C10 witness: disable_and_store ran with interrupts enabled and another bit set
C10_Witness ==
    /\ pc = "disable_and_store"
    /\ Bit(das_prior, 1) = 1
    /\ Bit(das_prior, 0) = 1

\* sstatus after the k-th call of restore(flags)
AfterRestore(k) == IF k < Len(rhist) THEN rhist[k + 1] ELSE sstatus

\* C11 as stated: after restore(token), bit 1 of sstatus is set when bit 1 of
\* the token is set, and interrupts are disabled (bit 1 is 0) when bit 1 of the
\* token is clear.
C11_AsStated ==
    rhist # <<>> =>
        /\ Bit(flags, 1) = 1 => Bit(sstatus, 1) = 1
        /\ Bit(flags, 1) = 0 => Bit(sstatus, 1) = 0

\* C11 amended: after restore(token), bit 1 of sstatus is set when bit 1 of the
\* token is set, and has the value it had before the call when bit 1 of the
\* token is clear (still disabled if it was disabled, still enabled if not).
C11_RestoreSie ==
    \A k \in 1 .. Len(rhist) :
        /\ Bit(flags, 1) = 1 => Bit(AfterRestore(k), 1) = 1
        /\ Bit(flags, 1) = 0 => Bit(AfterRestore(k), 1) = Bit(rhist[k], 1)

\* C11 witness: restore ran with a token whose bit 1 is clear while interrupts
\* were enabled, and they still are
C11_Witness ==
    /\ Len(rhist) = 1
    /\ Bit(flags, 1) = 0
    /\ Bit(rhist[1], 1) = 1
    /\ Bit(sstatus, 1) = 1

\* C19: restore(token) leaves in sstatus the bitwise OR of its former value and
\* the token: every bit is set that was set or is set in the token, no other
\* bit is, and a second restore(token) changes nothing.
C19_RestoreIsOr ==
    /\ \A k \in 1 .. Len(rhist) : \A b \in 0 .. (UsizeBits - 1) :
          Bit(AfterRestore(k), b) =
              (IF Bit(rhist[k], b) = 1 \/ Bit(flags, b) = 1 THEN 1 ELSE 0)
    /\ Len(rhist) >= 2 => AfterRestore(2) = AfterRestore(1)

\* C19 witness: restore ran twice with a token that has bit 0 set and bit 1
\* clear on an sstatus that had bit 1 set and bit 0 clear
C19_Witness ==
    /\ Len(rhist) = 2
    /\ Bit(flags, 0) = 1
    /\ Bit(flags, 1) = 0
    /\ Bit(rhist[1], 0) = 0
    /\ Bit(rhist[1], 1) = 1

\* C13: while rust_trap and its handlers run, and until the stub returns,
\* sstatus.SIE is 0 and no trap is taken; SIE goes from 0 to 1 only in the trap
\* return that follows the dispatcher's return.
C13_NoReentry ==
    /\ [](pc \in {"rust_trap", "syscall", "returned", "halted"} =>
            (Bit(sstatus, 1) = 0 /\ ~nested))
    /\ [][(Bit(sstatus, 1) = 0 /\ Bit(sstatus', 1) = 1) =>
            (pc = "returned" /\ pc' = "running")]_vars

\* C13 witness: a timer interrupt taken with interrupts enabled was dispatched
\* and the dispatcher returned with SIE still clear
C13_Witness ==
    /\ Dispatched(Cause("Interrupt", "SupervisorTimer"))
    /\ pc = "returned"
    /\ spie
    /\ Bit(sstatus, 1) = 0

\* C17: on a UserEnvCall the syscall collaborator is called exactly once, with
\* the entry x[17] as number and the entry x[10], x[11], x[12] as arguments, in
\* that order; the frame it is handed is the entry frame with sepc advanced by
\* 4; and after its return x[10] holds the value it returned, whatever it
\* stored there.
C17_Marshalling ==
    Dispatched(Cause("Exception", "UserEnvCall")) =>
        /\ pc \in {"syscall", "returned"}
        /\ Len(calls) = 1
        /\ calls[1].fn = "syscall"
        /\ calls[1].args = <<tf0.x[A7], tf0.x[A0], tf0.x[A1], tf0.x[A2]>>
        /\ (pc = "syscall" /\ written = {}) =>
              tf = [tf0 EXCEPT !.sepc = tf0.sepc + 4]
        /\ pc = "returned" => (ret # <<>> /\ tf.x[A0] = AsUsize(ret[1]))

\* C17 witness: the collaborator stored one value to x[10] and returned another
C17_Witness ==
    /\ Dispatched(Cause("Exception", "UserEnvCall"))
    /\ pc = "returned"
    /\ Field("x", A0) \in WrittenFields
    /\ WrittenValue(Field("x", A0)) # tf.x[A0]

\* init() has returned
InitDone == init_pc = Len(init_program) + 1

\* the PLIC routes source SERIAL_IRQ to hart 0 in S-mode
PlicRoutesSerial ==
    /\ mmio[PLIC_MTH] = 0
    /\ mmio[PLIC_PRIORITY + 4 * SERIAL_IRQ] = 1
    /\ Bit(mmio[PLIC_ENABLES], SERIAL_IRQ) = 1

\* the trap vector is installed
VectorInstalled ==
    /\ csr.sscratch = 0
    /\ csr.stvec = [base |-> "__alltraps", mode |-> "Direct"]

\* C14: when init returns, whatever the CSRs held before, sscratch is 0, stvec
\* holds the trap entry in Direct mode, sstatus.SIE is 1, the external enable
\* bit of sie is 1 and its timer and software bits are as before init.
C14_InitCsrs ==
    InitDone =>
        /\ VectorInstalled
        /\ Bit(sstatus, 1) = 1
        /\ Bit(csr.sie, 9) = 1
        /\ Bit(csr.sie, 5) = Bit(hw_prior.csr.sie, 5)
        /\ Bit(csr.sie, 1) = Bit(hw_prior.csr.sie, 1)

\* C14 witness: init returned from a state with SIE clear, the timer bit of
\* sie set, its external bit clear and another vector installed
C14_Witness ==
    /\ InitDone
    /\ Bit(hw_prior.sstatus, 1) = 0
    /\ hw_prior.csr.sie = 2 ^ 5
    /\ hw_prior.csr.sscratch # 0
    /\ hw_prior.csr.stvec.mode = "Vectored"

\* the stores of init_external_interrupt have all been made
PlicStoresDone ==
    /\ init_pc >= 1
    /\ \A a \in {PLIC_MTH, PLIC_PRIORITY + 4 * SERIAL_IRQ, PLIC_ENABLES} :
          \E i \in 1 .. Len(mmio_log) : mmio_log[i] = a

\* C15: after init_external_interrupt, whatever the PLIC held before, the
\* hart-0 S-mode threshold is 0, the priority of source 10 is 1 and the enable
\* bit of source 10 is 1.
C15_PlicProgrammed == PlicStoresDone => PlicRoutesSerial

\* C15 witness: the three stores were made on a PLIC whose registers all held
\* another value
C15_Witness ==
    /\ PlicStoresDone
    /\ hw_prior.mmio[PLIC_MTH] # 0
    /\ hw_prior.mmio[PLIC_PRIORITY + 4 * SERIAL_IRQ] # 1
    /\ hw_prior.mmio[PLIC_ENABLES] # 2 ^ SERIAL_IRQ

\* position of the store to address a in mmio_log, 0 if init did not store there
LogIndex(a) ==
    IF \E i \in 1 .. Len(mmio_log) : mmio_log[i] = a
    THEN CHOOSE i \in 1 .. Len(mmio_log) : mmio_log[i] = a
    ELSE 0

\* C16: once init has written 1 to the UART Interrupt Enable Register, the PLIC
\* routes source 10 (threshold 0, priority 1, enable bit set), and the Modem
\* Control Register was written 0x0B before that.
C16_UartAfterPlic ==
    (init_pc >= 1 /\ LogIndex(UART16550 + UART_IER) > 0) =>
        /\ mmio[UART16550 + UART_IER] = 1
        /\ PlicRoutesSerial
        /\ LogIndex(UART16550 + UART_MCR) > 0
        /\ LogIndex(UART16550 + UART_MCR) < LogIndex(UART16550 + UART_IER)
        /\ mmio[UART16550 + UART_MCR] = 11

\* C16 witness: the UART interrupt was switched on by init, on hardware whose
\* PLIC did not route source 10 before
C16_Witness ==
    /\ init_pc >= 1
    /\ LogIndex(UART16550 + UART_IER) > 0
    /\ hw_prior.mmio[PLIC_ENABLES] = 0
    /\ hw_prior.mmio[UART16550 + UART_IER] = 0

\* C20: in an init() entered with interrupts disabled, whenever sstatus.SIE is
\* 1 the vector is installed (sscratch is 0, stvec holds the trap entry in
\* Direct mode), and until both are written sstatus and sie are as before init.
C20_VectorBeforeSie ==
    (init_pc >= 1 /\ Bit(hw_prior.sstatus, 1) = 0) =>
        /\ Bit(sstatus, 1) = 1 => VectorInstalled
        /\ ~VectorInstalled => (sstatus = hw_prior.sstatus /\ csr.sie = hw_prior.csr.sie)

\* C20 witness: init, entered with interrupts disabled and another vector
\* installed, has set sstatus.SIE
C20_Witness ==
    /\ init_pc >= 1
    /\ Bit(hw_prior.sstatus, 1) = 0
    /\ hw_prior.csr.sscratch # 0
    /\ Bit(sstatus, 1) = 1
    /\ ~InitDone

\* C12: enable_and_wfi returns only after an interrupt enabled in sie has been
\* pending and a trap has been serviced, and it returns from the trap that woke
\* the parked hart; so also when an interrupt becomes pending between csrsi and
\* wfi (that one is serviced before wfi, and wfi waits for the next).
C12_WfiReturn ==
    /\ [](pc = "returned" => (arrived >= 1 /\ serviced >= 1 /\ "parked" \in trap_at))
    /\ [][(pc # "returned" /\ pc' = "returned") => (pc = "sret" /\ last = "parked")]_vars

\* C12 witness: enable_and_wfi returned after an interrupt was taken between
\* csrsi and wfi, having serviced two traps
C12_Witness ==
    /\ pc = "returned"
    /\ "wfi" \in trap_at
    /\ serviced = 2

\* what the handler pushes for a sequence of received bytes
RECURSIVE Translate(_)
Translate(q) ==
    IF q = <<>> THEN <<>>
    ELSE <<IF Head(q) = CR THEN LF ELSE Head(q)>> \o Translate(Tail(q))

\* C18: with the UART interrupt asserted while the FIFO is not empty and one
\* byte drained per SupervisorExternal trap, every byte that entered the FIFO
\* is eventually pushed to STDIN, exactly once and in arrival order: the pushes
\* followed by what is still in the FIFO are always the received bytes (CR as
\* LF), and again and again the pushes are all the received bytes.
C18_NoInputLost ==
    /\ [](STDIN \o Translate(fifo) = Translate(rx))
    /\ []<>(STDIN = Translate(rx))

\* C18 witness: several bytes, a carriage return first, were received with the
\* FIFO full at some time, and all were pushed
C18_Witness ==
    /\ Len(rx) > FifoDepth
    /\ rx[1] = CR
    /\ fifo = <<>>
    /\ Len(STDIN) = Len(rx)

====
